---- MODULE Spec2Model ----
(***************************************************************************)
(* KuKirin G4 BLE mode HUD (ble_mode_reader.py): the interactive loop      *)
(* (main), the scan (scan_devices), one connection session                 *)
(* (connect_and_run, live_hud) and the notification callback (on_notify).  *)
(*                                                                         *)
(* The BLE transport (bleak) is the environment: every awaited transport   *)
(* call either completes or raises, chosen nondeterministically.           *)
(* Environment assumptions: BleakClient's context manager connects on      *)
(* entry and disconnects on exit, and the exit (disconnect) itself does    *)
(* not raise; at most one interrupt is delivered to a session.             *)
(***************************************************************************)
EXTENDS Integers, Sequences, FiniteSets, TLC

VARIABLES
    pc,          \* position of the main task
    found,       \* scan_devices: the dict found, in insertion order
    devices,     \* main: the list returned by the last scan
    target,      \* connect_and_run: address of the device being connected
    held,        \* the BleakClient context holds a connection
    linkUp,      \* the radio link behind the held connection is alive
    subscribed,  \* on_notify is registered on FFF2
    last_mode,   \* live_hud: last_mode["val"]
    prev_mode,   \* last_mode["val"] of the holder of the previous live_hud call
    frame,       \* the data of the last on_notify call
    decoded,     \* the branch the last on_notify call took: a mode or None
    out,         \* mode lines written to stdout by this live_hud call
    observed,    \* modes decoded by this live_hud call, in arrival order
    pend,        \* what is propagating out of the session
    unsubFailed, \* stop_notify raised in this session
    report,      \* the last message printed for the user
    ops,         \* transport operations issued since the loop iteration began
    exitCause,   \* why the process ended
    adverts,     \* advertisements of the scan window whose result is on offer
    typed,       \* main: the line input() returned at the last prompt
    notifyChar,  \* characteristic named in the last start_notify/stop_notify
    interrupted  \* Ctrl+C has reached this session

vars == <<pc, found, devices, target, held, linkUp, subscribed, last_mode,
          prev_mode, frame, decoded, out, observed, pend, unsubFailed, report,
          ops, exitCause, adverts, typed, notifyChar, interrupted>>

----------------------------------------------------------------------------
(* Protocol constants, lines 54-58 *)

FFF2_UUID == "0000fff2-0000-1000-8000-00805f9b34fb"
GATE_OFFSET == 6
GATE_VALUE == 0
MODE_OFFSET == 5
MODE_MAP == (1 :> "ECO") @@ (2 :> "SPORT") @@ (3 :> "RACE")

None == "None"
Modes == {"ECO", "SPORT", "RACE"}

----------------------------------------------------------------------------
(* Bounds *)

MaxFrameLen == 8     \* longest notification payload drawn
MaxNotify == 2       \* decoded modes per session in the full program
MaxObserved == 7     \* decoded modes per session in the HUD specification
MaxDecodeObs == 1    \* decoded modes per session in the decoder specification
MaxAdverts == 2      \* advertisements per scan window in the full program
MaxScanAdverts == 3  \* advertisements per scan window in the scan specification

----------------------------------------------------------------------------
(* Notification payloads *)

FillBytes == {0, 2}
ModeBytes == {0, 1, 2, 3, 4, 255}
GateBytes == {0, 1, 255}

\* A payload of n bytes: b5 at offset 5, b6 at offset 6, fill elsewhere.
MkFrame(n, fill, b5, b6) ==
    [i \in 1..n |-> IF i = MODE_OFFSET + 1 THEN b5
                    ELSE IF i = GATE_OFFSET + 1 THEN b6
                    ELSE fill]

DecodeFrames ==
    {MkFrame(n, f, m, g) : n \in 0..MaxFrameLen, f \in FillBytes,
                           m \in ModeBytes, g \in GateBytes}

SessionFrames ==
    {MkFrame(7, 0, m, 0) : m \in {1, 2, 3, 4}}
        \cup {<<>>, MkFrame(6, 1, 1, 0), MkFrame(7, 0, 2, 1)}

Max(a, b) == IF a >= b THEN a ELSE b

\* data[off] of the Python bytearray
At(data, off) == data[off + 1]

----------------------------------------------------------------------------
(* live_hud.on_notify, lines 132-157 *)

\* ParseFrame with the mode byte read as a zero-based index.
ParseFrame_ZeroBased(data) ==
    IF Len(data) = 0 THEN None
    ELSE IF Len(data) <= Max(GATE_OFFSET, MODE_OFFSET) THEN None
    ELSE IF At(data, GATE_OFFSET) # GATE_VALUE THEN None
    ELSE LET b == At(data, MODE_OFFSET)
         IN  IF b = 0 THEN "ECO"
             ELSE IF b = 1 THEN "SPORT"
             ELSE IF b = 2 THEN "RACE"
             ELSE None

\* ParseFrame with the length check on the mode byte alone.
ParseFrame_ModeOnly(data) ==
    IF Len(data) = 0 THEN None
    ELSE IF Len(data) <= MODE_OFFSET THEN None
    ELSE IF Len(data) > GATE_OFFSET /\ At(data, GATE_OFFSET) # GATE_VALUE
         THEN None
    ELSE LET b == At(data, MODE_OFFSET)
         IN  IF b = 1 THEN "ECO"
             ELSE IF b = 2 THEN "SPORT"
             ELSE IF b = 3 THEN "RACE"
             ELSE None

\* ParseFrame without the gate check.
ParseFrame_NoGate(data) ==
    IF Len(data) = 0 THEN None
    ELSE IF Len(data) <= Max(GATE_OFFSET, MODE_OFFSET) THEN None
    ELSE LET b == At(data, MODE_OFFSET)
         IN  IF b = 1 THEN "ECO"
             ELSE IF b = 2 THEN "SPORT"
             ELSE IF b = 3 THEN "RACE"
             ELSE None

\* The parser of on_notify: the three early returns, then the mode byte.
ParseFrame(data) ==
    IF Len(data) = 0 THEN None
    ELSE IF Len(data) <= Max(GATE_OFFSET, MODE_OFFSET) THEN None
    ELSE IF At(data, GATE_OFFSET) # GATE_VALUE THEN None
    ELSE LET b == At(data, MODE_OFFSET)
         IN  IF b = 1 THEN "ECO"
             ELSE IF b = 2 THEN "SPORT"
             ELSE IF b = 3 THEN "RACE"
             ELSE None

\* ShowMode that writes on every notification.
ShowMode_Always(m) ==
    /\ out' = Append(out, m)
    /\ last_mode' = m

\* ShowMode whose RACE branch stores the SPORT label.
ShowMode_CopyPaste(m) ==
    IF last_mode # m
    THEN /\ out' = Append(out, m)
         /\ last_mode' = IF m = "RACE" THEN "SPORT" ELSE m
    ELSE UNCHANGED <<out, last_mode>>

\* ShowMode that never stores the mode it wrote.
ShowMode_NoUpdate(m) ==
    IF last_mode # m
    THEN /\ out' = Append(out, m)
         /\ UNCHANGED last_mode
    ELSE UNCHANGED <<out, last_mode>>

\* One mode branch of on_notify: write the line only when the mode changed.
ShowMode(m) ==
    IF last_mode # m
    THEN /\ out' = Append(out, m)
         /\ last_mode' = m
    ELSE UNCHANGED <<out, last_mode>>

\* A variant of on_notify: an undecodable payload forgets the shown mode.
on_notify_NoiseResets(data, cap) ==
    LET m == ParseFrame(data)
    IN  /\ m # None => Len(observed) < cap
        /\ frame' = data
        /\ decoded' = m
        /\ IF m = None
           THEN /\ last_mode' = None
                /\ UNCHANGED <<out, observed>>
           ELSE /\ observed' = Append(observed, m)
                /\ ShowMode(m)
        /\ UNCHANGED prev_mode

\* The callback on one payload; cap bounds the decoded modes of a session.
on_notify(data, cap) ==
    LET m == ParseFrame(data)
    IN  /\ m # None => Len(observed) < cap
        /\ frame' = data
        /\ decoded' = m
        /\ IF m = None
           THEN UNCHANGED <<out, last_mode, observed>>
           ELSE /\ observed' = Append(observed, m)
                /\ ShowMode(m)
        /\ UNCHANGED prev_mode

\* The transport delivers a notification while the main task is suspended
\* in an await and the callback is registered.
Delivering ==
    /\ subscribed
    /\ linkUp
    /\ pc \in {"listening", "unsubscribing", "releasing"}

noHudVars == <<pc, found, devices, target, held, linkUp, subscribed, pend,
               unsubFailed, report, ops, exitCause, adverts, typed,
               notifyChar, interrupted>>

Notify ==
    /\ Delivering
    /\ \E data \in SessionFrames : on_notify(data, MaxNotify)
    /\ UNCHANGED noHudVars

----------------------------------------------------------------------------
(* scan_devices, lines 85-120 *)

ScanAddrs == {"A", "B"}
NoRssi == <<>>                       \* the device has no integer rssi
RssiValues == {<<-40>>, <<-70>>, NoRssi}

Device(a, r) == [address |-> a, rssi |-> r]

\* Put into a list instead of a dict: every advertisement adds an entry.
Put_Appends(dict, d) == Append(dict, d)

\* found[d.address] = d: a known key keeps its place, a new key goes last.
Put(dict, d) ==
    IF \E i \in 1..Len(dict) : dict[i].address = d.address
    THEN [i \in 1..Len(dict) |->
             IF dict[i].address = d.address THEN d ELSE dict[i]]
    ELSE Append(dict, d)

\* rssi_of with 0 for a device without rssi.
rssi_of_Zero(dev) == IF dev.rssi # NoRssi THEN dev.rssi[1] ELSE 0

rssi_of(dev) == IF dev.rssi # NoRssi THEN dev.rssi[1] ELSE -999

\* Insert d into a list sorted by rssi_of descending, after its equals.
RECURSIVE InsertDesc(_, _)
InsertDesc(lst, d) ==
    IF lst = <<>> THEN <<d>>
    ELSE IF rssi_of(Head(lst)) >= rssi_of(d)
         THEN <<Head(lst)>> \o InsertDesc(Tail(lst), d)
         ELSE <<d>> \o lst

\* devices.sort(key=rssi_of, reverse=True): stable, best signal first.
RECURSIVE SortByRssi(_)
SortByRssi(lst) ==
    IF lst = <<>> THEN <<>>
    ELSE InsertDesc(SortByRssi(SubSeq(lst, 1, Len(lst) - 1)), lst[Len(lst)])

noScanVars == <<target, held, linkUp, subscribed, last_mode, prev_mode,
                frame, decoded, out, observed, pend, unsubFailed,
                notifyChar, interrupted>>

\* main line 193 into scan_devices: print, fresh dict, scanner.start().
\* The finished session's bookkeeping is dropped with the old iteration.
ScanStart ==
    /\ pc = "scan"
    /\ pc' = "scanning"
    /\ found' = <<>>
    /\ report' = "Scanning"
    /\ ops' = <<"scan_start">>
    /\ adverts' = <<>>
    /\ typed' = <<>>
    /\ target' = "none"
    /\ pend' = "none"
    /\ unsubFailed' = FALSE
    /\ notifyChar' = "none"
    /\ interrupted' = FALSE
    /\ UNCHANGED <<devices, exitCause, held, linkUp, subscribed, last_mode,
                   prev_mode, frame, decoded, out, observed>>

\* on_detect, lines 90-92, called by the scanner during the sleep, for an
\* advertisement drawn from addrs x rssis; cap bounds the window's events
Detect(addrs, rssis, cap) ==
    /\ pc = "scanning"
    /\ Len(adverts) < cap
    /\ \E a \in addrs, r \in rssis :
          /\ found' = Put(found, Device(a, r))
          /\ adverts' = Append(adverts, Device(a, r))
    /\ UNCHANGED <<pc, devices, report, ops, exitCause, typed>>
    /\ UNCHANGED noScanVars

on_detect == Detect(ScanAddrs, RssiValues, MaxAdverts)

\* lines 97-120 and main line 194: stop, sort, table; nothing found ends main
ScanStop ==
    /\ pc = "scanning"
    /\ ops' = Append(ops, "scan_stop")
    /\ devices' = SortByRssi(found)
    /\ IF found = <<>>
       THEN /\ report' = "NoDevices"
            /\ pc' = "exited"
            /\ exitCause' = "no_devices"
       ELSE /\ report' = "Table"
            /\ pc' = "prompt"
            /\ UNCHANGED exitCause
    /\ UNCHANGED found
    /\ UNCHANGED noScanVars
    /\ UNCHANGED <<adverts, typed>>

\* scanner.start() or scanner.stop() raises: nothing in main catches it
ScanError ==
    /\ pc = "scanning"
    /\ pc' = "exited"
    /\ exitCause' = "scan_error"
    /\ UNCHANGED <<found, devices, report, ops>>
    /\ UNCHANGED noScanVars
    /\ UNCHANGED <<adverts, typed>>

----------------------------------------------------------------------------
(* main, lines 191-215: the prompt *)

\* Lines typed at the prompt, as sequences of characters.  "sup2" stands
\* for a character that isdigit() accepts and int() rejects.
Inputs ==
    { <<"q">>, <<"Q">>, <<" ", "q", " ">>, <<"r">>, <<"R">>, <<"x">>, <<>>,
      <<"0">>, <<"1">>, <<"2">>, <<"3">>, <<" ", "3">>, <<"0", "3">>,
      <<"-", "1">>, <<"1", "0">>, <<"sup2">> }

DigitVal ==
    ("0" :> 0) @@ ("1" :> 1) @@ ("2" :> 2) @@ ("3" :> 3) @@ ("4" :> 4) @@
    ("5" :> 5) @@ ("6" :> 6) @@ ("7" :> 7) @@ ("8" :> 8) @@ ("9" :> 9)

RECURSIVE Strip(_)
Strip(str) ==
    IF str = <<>> THEN str
    ELSE IF Head(str) = " " THEN Strip(Tail(str))
    ELSE IF str[Len(str)] = " " THEN Strip(SubSeq(str, 1, Len(str) - 1))
    ELSE str

Lower(str) ==
    [i \in 1..Len(str) |->
        IF str[i] = "Q" THEN "q" ELSE IF str[i] = "R" THEN "r" ELSE str[i]]

\* str.isdigit(): not empty and every character is a digit character
IsDigit(str) ==
    /\ str # <<>>
    /\ \A i \in 1..Len(str) : str[i] \in DOMAIN DigitVal \cup {"sup2"}

\* int(str) does not raise
IntOk(str) == \A i \in 1..Len(str) : str[i] \in DOMAIN DigitVal

RECURSIVE ToInt(_)
ToInt(str) ==
    IF str = <<>> THEN 0
    ELSE 10 * ToInt(SubSeq(str, 1, Len(str) - 1)) + DigitVal[str[Len(str)]]

\* input(...).strip().lower()
Typed(raw) == Lower(Strip(raw))

noPromptVars == <<found, devices, held, linkUp, subscribed, last_mode,
                  prev_mode, frame, decoded, out, observed>>

\* lines 198-199: q
PromptQuit ==
    /\ pc = "prompt"
    /\ \E raw \in Inputs : Typed(raw) = <<"q">> /\ typed' = raw
    /\ pc' = "exited"
    /\ exitCause' = "quit"
    /\ UNCHANGED <<target, pend, unsubFailed, report, ops>>
    /\ UNCHANGED noPromptVars
    /\ adverts' = <<>>
    /\ UNCHANGED <<notifyChar, interrupted>>

\* lines 200-201: r
PromptRescan ==
    /\ pc = "prompt"
    /\ \E raw \in Inputs : Typed(raw) = <<"r">> /\ typed' = raw
    /\ pc' = "scan"
    /\ UNCHANGED <<target, pend, unsubFailed, report, ops, exitCause>>
    /\ UNCHANGED noPromptVars
    /\ adverts' = <<>>
    /\ UNCHANGED <<notifyChar, interrupted>>

\* lines 202-204: not a number
PromptWrong ==
    /\ pc = "prompt"
    /\ \E raw \in Inputs :
          LET s == Typed(raw)
          IN  s \notin {<<"q">>, <<"r">>} /\ ~IsDigit(s) /\ typed' = raw
    /\ report' = "WrongInput"
    /\ pc' = "scan"
    /\ UNCHANGED <<target, pend, unsubFailed, ops, exitCause>>
    /\ UNCHANGED noPromptVars
    /\ adverts' = <<>>
    /\ UNCHANGED <<notifyChar, interrupted>>

\* line 197: input() raises EOFError, which nothing in main catches
PromptEOF ==
    /\ pc = "prompt"
    /\ pc' = "exited"
    /\ exitCause' = "input_error"
    /\ UNCHANGED <<target, pend, unsubFailed, report, ops>>
    /\ UNCHANGED noPromptVars
    /\ adverts' = <<>>
    /\ UNCHANGED <<typed, notifyChar, interrupted>>

\* line 206: int(s) raises ValueError, which nothing in main catches
PromptBadInt ==
    /\ pc = "prompt"
    /\ \E raw \in Inputs :
          LET s == Typed(raw)
          IN  /\ s \notin {<<"q">>, <<"r">>} /\ IsDigit(s) /\ ~IntOk(s)
              /\ typed' = raw
    /\ pc' = "exited"
    /\ exitCause' = "input_error"
    /\ UNCHANGED <<target, pend, unsubFailed, report, ops>>
    /\ UNCHANGED noPromptVars
    /\ adverts' = <<>>
    /\ UNCHANGED <<notifyChar, interrupted>>

\* lines 206-209: a number outside 1..len(devices)
PromptOutOfRange ==
    /\ pc = "prompt"
    /\ \E raw \in Inputs :
          LET s == Typed(raw)
              i == ToInt(s) - 1
          IN  /\ s \notin {<<"q">>, <<"r">>}
              /\ IsDigit(s) /\ IntOk(s)
              /\ ~(0 <= i /\ i < Len(devices))
              /\ typed' = raw
    /\ report' = "OutOfRange"
    /\ pc' = "scan"
    /\ UNCHANGED <<target, pend, unsubFailed, ops, exitCause>>
    /\ UNCHANGED noPromptVars
    /\ adverts' = <<>>
    /\ UNCHANGED <<notifyChar, interrupted>>

\* PromptSelect without the lower bound of the range test: 0 gives the
\* index -1, the last entry of a Python list.
PromptSelect_NoLowerBound ==
    /\ pc = "prompt"
    /\ \E raw \in Inputs :
          LET s == Typed(raw)
              i == ToInt(s) - 1
          IN  /\ s \notin {<<"q">>, <<"r">>}
              /\ IsDigit(s) /\ IntOk(s)
              /\ i < Len(devices)
              /\ target' = devices[IF i < 0 THEN Len(devices) + 1 + i
                                            ELSE i + 1].address
              /\ typed' = raw
    /\ pc' = "connecting"
    /\ report' = "Connecting"
    /\ pend' = "none"
    /\ unsubFailed' = FALSE
    /\ ops' = Append(ops, "connect")
    /\ UNCHANGED exitCause
    /\ UNCHANGED noPromptVars
    /\ adverts' = <<>>
    /\ notifyChar' = "none"
    /\ interrupted' = FALSE

\* lines 206-212 into connect_and_run line 175-176: the context manager
\* is entered and connect is issued
PromptSelect ==
    /\ pc = "prompt"
    /\ \E raw \in Inputs :
          LET s == Typed(raw)
              i == ToInt(s) - 1
          IN  /\ s \notin {<<"q">>, <<"r">>}
              /\ IsDigit(s) /\ IntOk(s)
              /\ 0 <= i /\ i < Len(devices)
              /\ target' = devices[i + 1].address
              /\ typed' = raw
    /\ pc' = "connecting"
    /\ report' = "Connecting"
    /\ pend' = "none"
    /\ unsubFailed' = FALSE
    /\ ops' = Append(ops, "connect")
    /\ UNCHANGED exitCause
    /\ UNCHANGED noPromptVars
    /\ adverts' = <<>>
    /\ notifyChar' = "none"
    /\ interrupted' = FALSE

----------------------------------------------------------------------------
(* connect_and_run, lines 174-188, and live_hud, lines 123-171 *)

noLinkVars == <<found, devices, target, last_mode, prev_mode, frame,
                decoded, out, observed, unsubFailed, exitCause, adverts,
                typed>>

\* line 176: BleakClient.__aenter__ returns, the connection is held
ConnectOk ==
    /\ pc = "connecting"
    /\ pc' = "check"
    /\ held' = TRUE
    /\ linkUp' = TRUE
    /\ UNCHANGED <<subscribed, pend, report, ops>>
    /\ UNCHANGED noLinkVars
    /\ UNCHANGED <<notifyChar, interrupted>>

\* ConnectFail that tries the connect again by itself.
ConnectFail_Retries ==
    /\ pc = "connecting"
    /\ Len(ops) < 6
    /\ pc' = "connecting"
    /\ ops' = Append(ops, "connect")
    /\ UNCHANGED <<held, linkUp, subscribed, report, pend>>
    /\ UNCHANGED noLinkVars
    /\ UNCHANGED <<notifyChar, interrupted>>

\* line 176: connect times out or is refused; the with body never runs
\* and there is no context to exit
ConnectFail ==
    /\ pc = "connecting"
    /\ pc' = "closed"
    /\ pend' = "error"
    /\ UNCHANGED <<held, linkUp, subscribed, report, ops>>
    /\ UNCHANGED noLinkVars
    /\ UNCHANGED <<notifyChar, interrupted>>

\* the peripheral drops the link while the connection is held
RemoteDrop ==
    /\ held
    /\ linkUp
    /\ pc \in {"check", "subscribing", "listening"}
    /\ linkUp' = FALSE
    /\ UNCHANGED <<pc, held, subscribed, pend, report, ops>>
    /\ UNCHANGED noLinkVars
    /\ UNCHANGED <<notifyChar, interrupted>>

\* StatusNotConnected returning without leaving a with block.
StatusNotConnected_Leaks ==
    /\ pc = "check"
    /\ pc' = "closed"
    /\ report' = "CouldNotConnect"
    /\ ops' = Append(ops, "is_connected")
    /\ UNCHANGED <<held, linkUp, subscribed, pend>>
    /\ UNCHANGED noLinkVars
    /\ UNCHANGED <<notifyChar, interrupted>>

\* lines 178-185: the status check says not connected: message, return
\* from inside the with block
StatusNotConnected ==
    /\ pc = "check"
    /\ pc' = "releasing"
    /\ report' = "CouldNotConnect"
    /\ ops' = Append(ops, "is_connected")
    /\ UNCHANGED <<held, linkUp, subscribed, pend>>
    /\ UNCHANGED noLinkVars
    /\ UNCHANGED <<notifyChar, interrupted>>

\* StatusConnected with the last_mode holder kept from the last session.
StatusConnected_NoReset ==
    /\ pc = "check"
    /\ linkUp
    /\ pc' = "subscribing"
    /\ report' = "Connected"
    /\ ops' = Append(Append(ops, "is_connected"), "start_notify")
    /\ prev_mode' = last_mode
    /\ last_mode' = last_mode
    /\ frame' = <<>>
    /\ decoded' = None
    /\ out' = <<>>
    /\ observed' = <<>>
    /\ UNCHANGED <<found, devices, target, held, linkUp, subscribed, pend,
                   unsubFailed, exitCause>>
    /\ notifyChar' = FFF2_UUID
    /\ UNCHANGED <<adverts, typed, interrupted>>

\* StatusConnected that writes to the characteristic before subscribing.
StatusConnected_Writes ==
    /\ pc = "check"
    /\ linkUp
    /\ pc' = "subscribing"
    /\ report' = "Connected"
    /\ ops' = ops \o <<"is_connected", "write_gatt_char", "start_notify">>
    /\ prev_mode' = last_mode
    /\ last_mode' = None
    /\ frame' = <<>>
    /\ decoded' = None
    /\ out' = <<>>
    /\ observed' = <<>>
    /\ UNCHANGED <<found, devices, target, held, linkUp, subscribed, pend,
                   unsubFailed, exitCause>>
    /\ notifyChar' = FFF2_UUID
    /\ UNCHANGED <<adverts, typed, interrupted>>

\* lines 178-188, 124, 159: the status check says connected; live_hud
\* starts with a fresh last_mode holder and issues start_notify
StatusConnected ==
    /\ pc = "check"
    /\ linkUp
    /\ pc' = "subscribing"
    /\ report' = "Connected"
    /\ ops' = Append(Append(ops, "is_connected"), "start_notify")
    /\ prev_mode' = last_mode
    /\ last_mode' = None
    /\ frame' = <<>>
    /\ decoded' = None
    /\ out' = <<>>
    /\ observed' = <<>>
    /\ UNCHANGED <<found, devices, target, held, linkUp, subscribed, pend,
                   unsubFailed, exitCause>>
    /\ notifyChar' = FFF2_UUID
    /\ UNCHANGED <<adverts, typed, interrupted>>

\* line 159: start_notify returns, on_notify is registered
SubscribeOk ==
    /\ pc = "subscribing"
    /\ linkUp
    /\ pc' = "listening"
    /\ subscribed' = TRUE
    /\ UNCHANGED <<held, linkUp, pend, report, ops>>
    /\ UNCHANGED noLinkVars
    /\ UNCHANGED <<notifyChar, interrupted>>

\* SubscribeFail with start_notify inside the try: the finally block runs.
SubscribeFail_InsideTry ==
    /\ pc = "subscribing"
    /\ pc' = "unsubscribing"
    /\ pend' = "error"
    /\ ops' = Append(ops, "stop_notify")
    /\ UNCHANGED <<held, linkUp, subscribed, report>>
    /\ UNCHANGED noLinkVars
    /\ UNCHANGED <<notifyChar, interrupted>>

\* line 159: start_notify raises, outside the try of live_hud
SubscribeFail ==
    /\ pc = "subscribing"
    /\ pc' = "releasing"
    /\ pend' = "error"
    /\ UNCHANGED <<held, linkUp, subscribed, report, ops>>
    /\ UNCHANGED noLinkVars
    /\ UNCHANGED <<notifyChar, interrupted>>

\* InterruptListening with a sleep loop that ends by itself: no Ctrl+C.
InterruptListening_OrTimeout ==
    /\ pc = "listening"
    /\ pc' = "unsubscribing"
    /\ pend' = "none"
    /\ ops' = Append(ops, "stop_notify")
    /\ UNCHANGED <<held, linkUp, subscribed, report>>
    /\ UNCHANGED noLinkVars
    /\ notifyChar' = FFF2_UUID
    /\ UNCHANGED interrupted

\* lines 160-168: Ctrl+C while the task sleeps.  It reaches the task as a
\* KeyboardInterrupt, which line 164 drops, or as a cancellation, which
\* keeps propagating; either way the finally block issues stop_notify.
InterruptListening ==
    /\ pc = "listening"
    /\ pc' = "unsubscribing"
    /\ pend' \in {"none", "cancel"}
    /\ ops' = Append(ops, "stop_notify")
    /\ UNCHANGED <<held, linkUp, subscribed, report>>
    /\ UNCHANGED noLinkVars
    /\ notifyChar' = FFF2_UUID
    /\ interrupted' = TRUE

\* line 168: stop_notify returns
UnsubscribeOk ==
    /\ pc = "unsubscribing"
    /\ linkUp
    /\ pc' = "releasing"
    /\ subscribed' = FALSE
    /\ UNCHANGED <<held, linkUp, pend, report, ops>>
    /\ UNCHANGED noLinkVars
    /\ UNCHANGED <<notifyChar, interrupted>>

\* UnsubscribeFail with no except clause around stop_notify.
UnsubscribeFail_Raises ==
    /\ pc = "unsubscribing"
    /\ pc' = "releasing"
    /\ unsubFailed' = TRUE
    /\ pend' = "error"
    /\ UNCHANGED <<found, devices, target, held, linkUp, subscribed,
                   last_mode, prev_mode, frame, decoded, out, observed,
                   report, ops, exitCause>>
    /\ UNCHANGED <<adverts, typed, notifyChar, interrupted>>

\* lines 168-170: stop_notify raises and the error is dropped
UnsubscribeFail ==
    /\ pc = "unsubscribing"
    /\ pc' = "releasing"
    /\ unsubFailed' = TRUE
    /\ UNCHANGED <<found, devices, target, held, linkUp, subscribed,
                   last_mode, prev_mode, frame, decoded, out, observed,
                   pend, report, ops, exitCause>>
    /\ UNCHANGED <<adverts, typed, notifyChar, interrupted>>

\* Release that returns with the connection still open.
Release_KeepsLink ==
    /\ pc = "releasing"
    /\ pc' = "closed"
    /\ ops' = Append(ops, "disconnect")
    /\ UNCHANGED <<held, linkUp, subscribed, pend, report>>
    /\ UNCHANGED noLinkVars
    /\ UNCHANGED <<notifyChar, interrupted>>

\* line 176: leaving the with block, BleakClient.__aexit__ disconnects
Release ==
    /\ pc = "releasing"
    /\ pc' = "closed"
    /\ held' = FALSE
    /\ linkUp' = FALSE
    /\ subscribed' = FALSE
    /\ ops' = Append(ops, "disconnect")
    /\ UNCHANGED <<pend, report>>
    /\ UNCHANGED noLinkVars
    /\ UNCHANGED <<notifyChar, interrupted>>

\* Ctrl+C while connect or start_notify is awaited: a cancellation
InterruptSession ==
    /\ \/ pc = "connecting" /\ pc' = "closed"
       \/ pc = "subscribing" /\ pc' = "releasing"
    /\ pend' = "cancel"
    /\ UNCHANGED <<held, linkUp, subscribed, report, ops>>
    /\ UNCHANGED noLinkVars
    /\ interrupted' = TRUE
    /\ UNCHANGED notifyChar

\* Ctrl+C during the scan or at the prompt ends the process
InterruptMain ==
    /\ pc \in {"scanning", "prompt"}
    /\ pc' = "exited"
    /\ exitCause' = "interrupt"
    /\ UNCHANGED <<found, devices, target, held, linkUp, subscribed,
                   last_mode, prev_mode, frame, decoded, out, observed,
                   pend, unsubFailed, report, ops>>
    /\ UNCHANGED <<adverts, typed, notifyChar, interrupted>>

\* SessionReturn with no try around connect_and_run.
SessionReturn_NoCatch ==
    /\ pc = "closed"
    /\ CASE pend = "none" ->
              /\ pc' = "scan"
              /\ UNCHANGED <<report, exitCause>>
         [] pend = "error" ->
              /\ pc' = "exited"
              /\ exitCause' = "session_error"
              /\ UNCHANGED report
         [] pend = "cancel" ->
              /\ pc' = "exited"
              /\ exitCause' = "interrupt"
              /\ UNCHANGED report
    /\ frame' = <<>>
    /\ decoded' = None
    /\ out' = <<>>
    /\ observed' = <<>>
    /\ UNCHANGED <<found, devices, target, held, linkUp, subscribed,
                   last_mode, prev_mode, pend, unsubFailed, ops>>
    /\ UNCHANGED <<adverts, typed, notifyChar, interrupted>>

\* SessionReturn whose except clause prints nothing.
SessionReturn_Silent ==
    /\ pc = "closed"
    /\ CASE pend \in {"none", "error"} ->
              /\ pc' = "scan"
              /\ UNCHANGED <<report, exitCause>>
         [] pend = "cancel" ->
              /\ pc' = "exited"
              /\ exitCause' = "interrupt"
              /\ UNCHANGED report
    /\ frame' = <<>>
    /\ decoded' = None
    /\ out' = <<>>
    /\ observed' = <<>>
    /\ UNCHANGED <<found, devices, target, held, linkUp, subscribed,
                   last_mode, prev_mode, pend, unsubFailed, ops>>
    /\ UNCHANGED <<adverts, typed, notifyChar, interrupted>>

\* main lines 211-215 and 217-221: connect_and_run is over.  A return goes
\* round the loop, an Exception is reported and goes round the loop, a
\* cancellation ends asyncio.run with KeyboardInterrupt.
SessionReturn ==
    /\ pc = "closed"
    /\ CASE pend = "none" ->
              /\ pc' = "scan"
              /\ UNCHANGED <<report, exitCause>>
         [] pend = "error" ->
              /\ pc' = "scan"
              /\ report' = "SessionError"
              /\ UNCHANGED exitCause
         [] pend = "cancel" ->
              /\ pc' = "exited"
              /\ exitCause' = "interrupt"
              /\ UNCHANGED report
    /\ frame' = <<>>
    /\ decoded' = None
    /\ out' = <<>>
    /\ observed' = <<>>
    /\ UNCHANGED <<found, devices, target, held, linkUp, subscribed,
                   last_mode, prev_mode, pend, unsubFailed, ops>>
    /\ UNCHANGED <<adverts, typed, notifyChar, interrupted>>

----------------------------------------------------------------------------
(* The whole program *)

Init ==
    /\ pc = "scan"
    /\ found = <<>>
    /\ devices = <<>>
    /\ target = "none"
    /\ held = FALSE
    /\ linkUp = FALSE
    /\ subscribed = FALSE
    /\ last_mode = None
    /\ prev_mode = None
    /\ frame = <<>>
    /\ decoded = None
    /\ out = <<>>
    /\ observed = <<>>
    /\ pend = "none"
    /\ unsubFailed = FALSE
    /\ report = "none"
    /\ ops = <<>>
    /\ exitCause = "none"
    /\ adverts = <<>>
    /\ typed = <<>>
    /\ notifyChar = "none"
    /\ interrupted = FALSE

Next ==
    \/ ScanStart
    \/ on_detect
    \/ ScanStop
    \/ ScanError
    \/ PromptQuit
    \/ PromptRescan
    \/ PromptWrong
    \/ PromptEOF
    \/ PromptBadInt
    \/ PromptOutOfRange
    \/ PromptSelect
    \/ ConnectOk
    \/ ConnectFail
    \/ RemoteDrop
    \/ StatusNotConnected
    \/ StatusConnected
    \/ SubscribeOk
    \/ SubscribeFail
    \/ InterruptListening
    \/ Notify
    \/ UnsubscribeOk
    \/ UnsubscribeFail
    \/ Release
    \/ InterruptSession
    \/ InterruptMain
    \/ SessionReturn

Spec == Init /\ [][Next]_vars

(* One scan window, with three addresses and a signal weaker than -999 *)

WindowAddrs == {"A", "B", "C"}
WindowRssi == RssiValues \cup {<<-1000>>}

WindowDetect == Detect(WindowAddrs, WindowRssi, MaxScanAdverts)

ScanNext ==
    \/ ScanStart
    \/ WindowDetect
    \/ ScanStop

SpecScan == Init /\ [][ScanNext]_vars

\* The unfair program plus what the event loop guarantees: an awaited
\* stop_notify ends (returns or raises) and the context exit runs.
FairSpec ==
    /\ Spec
    /\ WF_vars(UnsubscribeOk \/ UnsubscribeFail)
    /\ WF_vars(Release)

----------------------------------------------------------------------------
(* One session, from the moment start_notify has returned *)

HudInit ==
    /\ pc = "listening"
    /\ found = <<Device("A", <<-40>>)>>
    /\ devices = <<Device("A", <<-40>>)>>
    /\ target = "A"
    /\ held = TRUE
    /\ linkUp = TRUE
    /\ subscribed = TRUE
    /\ last_mode = None
    /\ prev_mode = None
    /\ frame = <<>>
    /\ decoded = None
    /\ out = <<>>
    /\ observed = <<>>
    /\ pend = "none"
    /\ unsubFailed = FALSE
    /\ report = "Connected"
    /\ ops = <<"scan_start", "scan_stop", "connect", "is_connected",
               "start_notify">>
    /\ exitCause = "none"
    /\ adverts = <<>>
    /\ typed = <<"1">>
    /\ notifyChar = FFF2_UUID
    /\ interrupted = FALSE

\* a long run of notifications in one session
HudNotify ==
    /\ Delivering
    /\ \E data \in SessionFrames : on_notify(data, MaxObserved)
    /\ UNCHANGED noHudVars

HudNext == HudNotify

SpecHud == HudInit /\ [][HudNext]_vars

\* every payload shape, one at a time
DecodeNotify ==
    /\ Delivering
    /\ \E data \in DecodeFrames : on_notify(data, MaxDecodeObs)
    /\ UNCHANGED noHudVars

DecodeNext == DecodeNotify

SpecDecode == HudInit /\ [][DecodeNext]_vars

----------------------------------------------------------------------------
(* Properties *)

Has(log, op) == \E i \in 1..Len(log) : log[i] = op

Count(log, op) == Cardinality({i \in 1..Len(log) : log[i] = op})

\* seq with every run of equal neighbours cut down to one element
RECURSIVE Collapse(_)
Collapse(seq) ==
    IF Len(seq) <= 1 THEN seq
    ELSE LET front == SubSeq(seq, 1, Len(seq) - 1)
             last  == seq[Len(seq)]
         IN  IF last = seq[Len(seq) - 1]
             THEN Collapse(front)
             ELSE Append(Collapse(front), last)

\* the main task is inside a live_hud call or unwinding from one
InHud ==
    /\ pc \in {"subscribing", "listening", "unsubscribing", "releasing",
               "closed"}
    /\ Has(ops, "start_notify")

\* C1: a notification that decodes to a mode writes a line exactly when the
\* mode differs from last_mode at that moment, and a write leaves last_mode
\* equal to the mode written.
C1_RenderIffChanged ==
    [][ Len(observed') = Len(observed) + 1 =>
          LET m == observed'[Len(observed')]
          IN  /\ IF m # last_mode
                 THEN out' = Append(out, m)
                 ELSE out' = out
              /\ out' # out => last_mode' = m ]_vars

\* C1 witness: one session saw ECO twice; the first was written, the
\* second was not.
C1_Witness ==
    /\ observed = <<"ECO", "ECO">>
    /\ out = <<"ECO">>
    /\ last_mode = "ECO"

\* C2: once the interrupt has put the session into its unsubscribe step it
\* reaches closed with exactly one disconnect and nothing held; a
\* stop_notify that raised never becomes the error leaving the session.
C2_ClosedAfterCancel ==
    /\ (pc = "unsubscribing") ~>
           (pc = "closed" /\ Count(ops, "disconnect") = 1 /\ ~held)
    /\ [](unsubFailed => pend # "error")
    /\ [](pc = "closed" /\ unsubFailed => Count(ops, "disconnect") = 1)

\* C2 witness: stop_notify raised and the session is closed after one
\* disconnect.
C2_Witness ==
    /\ pc = "closed"
    /\ unsubFailed
    /\ Has(ops, "stop_notify")
    /\ Count(ops, "disconnect") = 1
    /\ ~held

\* C3, amended: no connection is held once a session is over, and a closed
\* session has disconnected exactly once if its connect succeeded (the
\* status check ran) and not at all if its connect failed.
C3_ReleasedIfAcquired ==
    /\ pc \in {"scan", "scanning", "prompt", "connecting", "closed",
               "exited"} => ~held
    /\ pc = "closed" =>
          Count(ops, "disconnect") = IF Has(ops, "is_connected") THEN 1 ELSE 0

\* C3 witness: start_notify raised and the session closed after one
\* disconnect.
C3_Witness ==
    /\ pc = "closed"
    /\ pend = "error"
    /\ Has(ops, "start_notify")
    /\ Count(ops, "disconnect") = 1
    /\ ~held

\* C3 as claimed: every closed session has run the disconnect, a failed
\* connect included.
C3_Original ==
    pc = "closed" => Count(ops, "disconnect") = 1

\* C4, amended: the process ends only by quit or interrupt, by a scan that
\* found nothing, or by an error raised in the scan or at the prompt; after
\* a wrong or out-of-range selection or a session error the loop is back at
\* the scan, and a refused connection is on its way there.
C4_ExitCauses ==
    /\ pc = "exited" =>
          exitCause \in {"quit", "interrupt", "no_devices", "scan_error",
                         "input_error"}
    /\ report \in {"WrongInput", "OutOfRange", "SessionError"} => pc = "scan"
    /\ report = "CouldNotConnect" => pc \in {"releasing", "closed", "scan"}

\* C4 witness: a session error was reported and the loop is about to scan
\* again.
C4_Witness ==
    /\ report = "SessionError"
    /\ pc = "scan"
    /\ pend = "error"
    /\ exitCause = "none"

\* C4 as claimed: the process ends only after the user quits.
C4_Original ==
    pc = "exited" => exitCause \in {"quit", "interrupt"}

\* C5: the lines written in a session are the decoded modes of the session
\* with runs of equal modes collapsed, in arrival order.
C5_RendersAreCollapsed ==
    out = Collapse(observed)

\* C5 witness: the seven modes of the example gave the four lines ECO,
\* SPORT, RACE, ECO.
C5_Witness ==
    /\ observed = <<"ECO", "ECO", "SPORT", "SPORT", "SPORT", "RACE", "ECO">>
    /\ out = <<"ECO", "SPORT", "RACE", "ECO">>

\* C6: every live_hud call starts with last_mode none, so the first decoded
\* mode of a session is its first line, whatever the previous session wrote
\* last.
C6_FreshPerSession ==
    InHud =>
        /\ observed = <<>> => last_mode = None /\ out = <<>>
        /\ observed # <<>> => out # <<>> /\ out[1] = observed[1]

\* C6 witness: the previous session ended on a mode and this one wrote that
\* same mode for its first notification.
C6_Witness ==
    /\ InHud
    /\ prev_mode \in Modes
    /\ observed # <<>>
    /\ observed[1] = prev_mode
    /\ out # <<>>
    /\ out[1] = prev_mode

\* C7: with seven or more bytes and 0x00 at offset 6, the byte at offset 5
\* decodes by MODE_MAP and any byte outside MODE_MAP decodes to no mode; a
\* decoded mode is the mode on display.
C7_ModeByteDecoded ==
    Len(frame) >= 7 /\ frame[7] = 0 =>
        /\ decoded = IF frame[6] \in DOMAIN MODE_MAP
                     THEN MODE_MAP[frame[6]]
                     ELSE None
        /\ decoded # None => last_mode = decoded

\* C7 witness: the seven-byte payload with 0x02 at offset 5 and 0x00 at
\* offset 6 decoded to SPORT.
C7_Witness ==
    /\ frame = MkFrame(7, 2, 2, 0)
    /\ decoded = "SPORT"
    /\ out = <<"SPORT">>

\* C8: a payload shorter than seven bytes decodes to no mode.
C8_ShortFrameNoMode ==
    Len(frame) < 7 => decoded = None

\* C8 witness: six bytes with 0x01 at offset 5 were handled and gave no
\* mode.
C8_Witness ==
    /\ frame = MkFrame(6, 0, 1, 0)
    /\ decoded = None
    /\ out = <<>>

\* C9: with seven or more bytes and a byte other than 0x00 at offset 6 the
\* payload decodes to no mode, whatever the byte at offset 5.
C9_GateClosedNoMode ==
    Len(frame) >= 7 /\ frame[7] # 0 => decoded = None

\* C9 witness: eight bytes with 0x02 at offset 5 and 0x01 at offset 6 were
\* handled and gave no mode.
C9_Witness ==
    /\ frame = MkFrame(8, 0, 2, 1)
    /\ decoded = None
    /\ out = <<>>

\* C10: a session that has decoded the same mode N times, N >= 1, has
\* written one line, and its display state is what one observation leaves.
C10_RepeatRendersOnce ==
    (observed # <<>> /\ \A i \in 1..Len(observed) : observed[i] = observed[1])
        => out = <<observed[1]>> /\ last_mode = observed[1]

\* C10 witness: SPORT was decoded five times and written once.
C10_Witness ==
    /\ observed = <<"SPORT", "SPORT", "SPORT", "SPORT", "SPORT">>
    /\ out = <<"SPORT">>
    /\ last_mode = "SPORT"

\* the scan result is out: scanner.stop() has been issued
Scanned == Has(ops, "scan_stop")

\* position of the last advertisement of address a in log
LastSeen(log, a) ==
    CHOOSE k \in 1..Len(log) :
        /\ log[k].address = a
        /\ \A n \in (k + 1)..Len(log) : log[n].address # a

\* lst holds each address of log once, with its last advertisement
OncePerAddress(lst, log) ==
    /\ \A i, j \in 1..Len(lst) : i # j => lst[i].address # lst[j].address
    /\ {lst[i].address : i \in 1..Len(lst)}
           = {log[k].address : k \in 1..Len(log)}
    /\ \A i \in 1..Len(lst) : lst[i] = log[LastSeen(log, lst[i].address)]

\* C11: during the window the dict, and after it the result, hold every
\* advertised address exactly once, with the last advertisement seen for it.
C11_OneEntryPerAddress ==
    /\ pc = "scanning" => OncePerAddress(found, adverts)
    /\ Scanned /\ pc \in {"prompt", "exited"} =>
           OncePerAddress(devices, adverts)

\* C11 witness: A advertised twice, B once in between; the result has one
\* entry for A, carrying its second advertisement.
C11_Witness ==
    /\ pc = "prompt"
    /\ adverts = <<Device("A", <<-40>>), Device("B", <<-70>>),
                   Device("A", NoRssi)>>
    /\ devices = <<Device("B", <<-70>>), Device("A", NoRssi)>>

Known(dev) == dev.rssi # NoRssi

ConnectFailed ==
    /\ pc \in {"closed", "scan"}
    /\ pend = "error"
    /\ Has(ops, "connect")
    /\ ~Has(ops, "is_connected")

\* the session's status check said not connected
StatusNegative ==
    /\ Has(ops, "is_connected")
    /\ ~Has(ops, "start_notify")

\* C13: a session whose connect raised or whose status check was negative
\* never issues start_notify and has its failure reported; a session issues
\* one connect, a failed connect goes straight to closed, and a connect is
\* issued only by a selection at the prompt.
C13_FailedConnectNoRetry ==
    /\ [](Count(ops, "connect") <= 1)
    /\ [](ConnectFailed =>
             /\ ~Has(ops, "start_notify") /\ ~subscribed
             /\ pc = "scan" => report = "SessionError")
    /\ [](StatusNegative =>
             /\ ~subscribed
             /\ report = "CouldNotConnect"
             /\ pc \in {"releasing", "closed", "scan"})
    /\ [][ /\ pc = "connecting" /\ pc' # pc /\ ~held' => pc' = "closed"
           /\ Count(ops', "connect") > Count(ops, "connect") =>
                  pc = "prompt" /\ pc' = "connecting" ]_vars

\* C13 witness: the only transport operation of the session was one
\* connect, it failed, and the failure is reported.
C13_Witness ==
    /\ pc = "scan"
    /\ report = "SessionError"
    /\ ops = <<"scan_start", "scan_stop", "connect">>

\* C14: an exception raised by connect or by start_notify leaves the
\* session as an error, is printed as a session error by main, and main
\* goes on to the next scan; the process does not end.
C14_SessionErrorCaught ==
    /\ [](pend = "error" => pc \in {"releasing", "closed", "scan"})
    /\ [](pend = "error" /\ pc = "scan" =>
             report = "SessionError" /\ exitCause = "none")
    /\ [][ pc = "closed" /\ pend = "error" /\ pc' # pc =>
              pc' = "scan" /\ report' = "SessionError" ]_vars

\* C14 witness: start_notify raised, the connection was released and the
\* loop is about to scan again with the session error reported.
C14_Witness ==
    /\ pc = "scan"
    /\ report = "SessionError"
    /\ ops = <<"scan_start", "scan_stop", "connect", "is_connected",
               "start_notify", "disconnect">>
    /\ exitCause = "none"

ReadOnlyOps ==
    {"scan_start", "scan_stop", "connect", "is_connected", "start_notify",
     "stop_notify", "disconnect"}

\* C15: every transport operation issued is a scan start or stop, connect,
\* status query, start_notify, stop_notify or disconnect, and the
\* characteristic subscribed to is 0000fff2-0000-1000-8000-00805f9b34fb.
C15_ReadOnly ==
    /\ \A i \in 1..Len(ops) : ops[i] \in ReadOnlyOps
    /\ Has(ops, "start_notify") \/ Has(ops, "stop_notify") \/ subscribed
           => notifyChar = "0000fff2-0000-1000-8000-00805f9b34fb"

\* C15 witness: a session is listening on FFF2 and has decoded a mode.
C15_Witness ==
    /\ pc = "listening"
    /\ subscribed
    /\ notifyChar = "0000fff2-0000-1000-8000-00805f9b34fb"
    /\ observed # <<>>
    /\ \A i \in 1..Len(ops) : ops[i] \in ReadOnlyOps

OpRank ==
    [op \in ReadOnlyOps |->
        CASE op = "scan_start" -> 0
          [] op = "scan_stop" -> 1
          [] op = "connect" -> 2
          [] op = "is_connected" -> 3
          [] op = "start_notify" -> 4
          [] op = "stop_notify" -> 5
          [] op = "disconnect" -> 6]

Issued(op) == ops' = Append(ops, op)

\* C16: the operations of a loop iteration are issued in the order connect,
\* status check, start_notify, stop_notify, disconnect, each at most once;
\* start_notify follows a status check made on a held connection,
\* stop_notify is issued only while the callback is registered, and a
\* disconnect without a stop_notify happens only when it is not.
C16_OperationOrder ==
    /\ [](\A i, j \in 1..Len(ops) : i < j => OpRank[ops[i]] < OpRank[ops[j]])
    /\ [](Has(ops, "start_notify") => Has(ops, "is_connected"))
    /\ [](Has(ops, "is_connected") => Has(ops, "connect"))
    /\ [](pc = "subscribing" => held)
    /\ [][ /\ Issued("stop_notify") => subscribed /\ pc = "listening"
           /\ Issued("disconnect") /\ ~Has(ops, "stop_notify") => ~subscribed
         ]_vars

\* C16 witness: a closed session that issued all five operations in order.
C16_Witness ==
    /\ pc = "closed"
    /\ ops = <<"scan_start", "scan_stop", "connect", "is_connected",
               "start_notify", "stop_notify", "disconnect">>

\* a payload on_notify drops: empty or short, gate byte set, or an unknown
\* mode byte
Noise(f) ==
    \/ Len(f) < 7
    \/ f[7] # 0
    \/ f[6] \notin {1, 2, 3}

\* C17: a notification that decodes to no mode writes nothing and leaves
\* last_mode unchanged, and a valid frame that carries the mode of the last
\* written line writes nothing either, whatever was dropped in between.
C17_NoiseLeavesDisplay ==
    [][/\ Noise(frame') => /\ decoded' = None
                           /\ out' = out
                           /\ last_mode' = last_mode
                           /\ observed' = observed
       /\ (/\ ~Noise(frame')
           /\ out # <<>>
           /\ MODE_MAP[frame'[6]] = out[Len(out)]) => out' = out]_vars

\* C17 witness: ECO was written, then a frame with the unknown mode byte 4
\* was dropped, and ECO is still the shown mode.
C17_Witness ==
    /\ frame = MkFrame(7, 0, 4, 0)
    /\ decoded = None
    /\ observed = <<"ECO">>
    /\ out = <<"ECO">>
    /\ last_mode = "ECO"

\* C18: while the session listens the callback stays registered and the
\* connection held; the session leaves Listening only by a Ctrl+C, which
\* takes it to the stop_notify of the finally block, and a dropped link
\* leaves it listening.
C18_ListeningPureWait ==
    /\ [](pc = "listening" =>
            /\ subscribed
            /\ held
            /\ Has(ops, "start_notify")
            /\ ~Has(ops, "stop_notify"))
    /\ [][/\ (pc = "listening" /\ pc' # "listening") =>
                /\ ~interrupted
                /\ interrupted'
                /\ pc' = "unsubscribing"
                /\ Issued("stop_notify")
          /\ (pc = "listening" /\ linkUp /\ ~linkUp') =>
                pc' = "listening" /\ subscribed']_vars

\* C18 witness: the link has dropped after a mode was shown and the session
\* still listens with the callback registered and no Ctrl+C.
C18_Witness ==
    /\ pc = "listening"
    /\ ~linkUp
    /\ subscribed
    /\ ~interrupted
    /\ observed # <<>>

\* the operation a step issues
IssuedOp == ops'[Len(ops')]

\* C19: outside a session (scan, prompt, connect not yet answered) no
\* connection is held and no callback is registered, and a step that starts
\* a scan or issues a connect is taken only in such a state.
C19_OneConnectionNoOverlap ==
    /\ [](pc \in {"scan", "scanning", "prompt", "connecting"} =>
            ~held /\ ~linkUp /\ ~subscribed)
    /\ [][(ops' # ops /\ IssuedOp \in {"scan_start", "connect"}) =>
              ~held /\ ~linkUp /\ ~subscribed]_vars

\* C19 witness: a scan is receiving advertisements after a session that
\* showed a mode, and that session's connection is released.
C19_Witness ==
    /\ pc = "scanning"
    /\ adverts # <<>>
    /\ last_mode \in Modes
    /\ ~held
    /\ ~linkUp

\* the decimal numbers among the lines typed at the prompt, by value
Number ==
    (<<"0">> :> 0) @@ (<<"1">> :> 1) @@ (<<"2">> :> 2) @@ (<<"3">> :> 3) @@
    (<<" ", "3">> :> 3) @@ (<<"0", "3">> :> 3) @@ (<<"1", "0">> :> 10)

\* the lines that mean quit
QuitLines == {<<"q">>, <<"Q">>, <<" ", "q", " ">>}

\* line names an entry of the scan result by its 1-based index
ValidIndex(line) ==
    /\ line \in DOMAIN Number
    /\ Number[line] \in 1..Len(devices)

\* a step that read a line at the prompt; typed' is that line
LineRead ==
    /\ pc = "prompt"
    /\ pc' # "prompt"
    /\ typed' # <<>> \/ pc' = "scan"

\* C20 as stated: a connect is issued only for a valid 1-based index into
\* the last scan result and goes to the device at that index; every other
\* line that is not a quit issues no connect and leads to a new scan.
C20_Original ==
    [][LineRead =>
          /\ Issued("connect") =>
                /\ ValidIndex(typed')
                /\ target' = devices[Number[typed']].address
          /\ (typed' \notin QuitLines /\ ~ValidIndex(typed')) =>
                /\ pc' = "scan"
                /\ ops' = ops]_vars

\* C20, what the code does: the same, except that a line of digit
\* characters that int() does not convert ends the process.
C20_ConnectOnlyByValidIndex ==
    /\ [](Has(ops, "connect") =>
            /\ ValidIndex(typed)
            /\ target = devices[Number[typed]].address)
    /\ [][LineRead =>
            /\ Issued("connect") =>
                  /\ ValidIndex(typed')
                  /\ target' = devices[Number[typed']].address
                  /\ devices' = devices
            /\ (typed' \notin QuitLines \cup {<<"sup2">>}
                   /\ ~ValidIndex(typed')) =>
                  /\ pc' = "scan"
                  /\ ops' = ops
            /\ typed' = <<"sup2">> =>
                  /\ pc' = "exited"
                  /\ exitCause' = "input_error"
                  /\ ops' = ops]_vars

\* C20 witness: 2 was typed for a result of two devices and the connect
\* goes to the second.
C20_Witness ==
    /\ pc = "connecting"
    /\ typed = <<"2">>
    /\ Len(devices) = 2
    /\ target = devices[2].address
    /\ ops = <<"scan_start", "scan_stop", "connect">>

====
